---- MODULE Spec2Model ----
(***************************************************************************)
(* Warehouse activity tracker: the in-memory "current day" state of        *)
(* tracker.py, its listener, periodic-flush, rollover and exit threads,    *)
(* and the activity table they rewrite through activity_log.tmp; and the   *)
(* metrics table of shipstation_tracker.py.                                *)
(*                                                                         *)
(* A datetime is an integer tick; strftime("%Y-%m-%d") is DateOf and       *)
(* strftime("%H:%M:%S") is the tick within its day.  A file is a record    *)
(* [exists, content] whose content is a sequence of lines, the header      *)
(* first.  A buffered csv write reaches the file as one write at the       *)
(* handle's offset when the with-block closes it (tables far below the     *)
(* 8 KiB buffer), so a write overlays what the file holds from offset 0.   *)
(* os.replace follows the semantics of the platform the program runs on    *)
(* (it imports winreg): it raises while another handle holds the source.   *)
(***************************************************************************)
EXTENDS Integers, Sequences, FiniteSets, TLC

(* ------------------------------ bounds -------------------------------- *)
\* ticks of the wall clock per calendar day
TicksPerDay == 2
\* ticks the wall clock advances in one run, from the start of day 1
\* (day 0 is "yesterday")
MaxTicks == 2
\* input events delivered in one run
MaxEvents == 2
\* timeouts of the periodic flush thread's wait in one run
MaxPeriodic == 1
\* timeouts of the periodic flush thread's wait in a run in which it is the
\* only thread that flushes
MaxPeriodicAlone == 2

\* ticks of the wall clock in the runs that follow the rollover thread over
\* more than one midnight
MaxTicksAsleep == 4
\* I/O errors raised in one run
MaxFaults == 1
\* runs of shipstation_tracker.py
MaxRuns == 2
\* the largest order count the API returns
MaxCount == 10

(* --------------------------- program values --------------------------- *)
\* _first_activity / _last_activity: datetime | None
None == -1
\* _current_date = "" before main() sets it
NoDate == -1
\* _fmt(None) = ""
EmptyStr == -1

Listeners == {"keyboard", "mouse"}
Flushers == {"periodic", "rollover", "exit"}

FirstTick == TicksPerDay
LastTick == FirstTick + MaxTicks

\* now.strftime("%Y-%m-%d")
DateOf(t) == t \div TicksPerDay

\* _fmt: strftime("%H:%M:%S") keeps the time of day only; None gives ""
Fmt(dt) == IF dt = None THEN EmptyStr ELSE dt % TicksPerDay

\* characters of "%Y-%m-%d" and of "%H:%M:%S"
DateWidth == 10
TimeWidth == 8
\* the two commas and the csv module's "\r\n" of a three-field line
SeparatorsWidth == 4
\* characters of "Date,First Activity,Last Activity\r\n"
HeaderWidth == 35

\* the Date a reader finds in what is left of an overwritten line
TornDate == -2

\* csv.DictWriter.writeheader(): the line of CSV_COLUMNS
HeaderLine == [kind |-> "header", Date |-> NoDate, First |-> EmptyStr, Last |-> EmptyStr,
               width |-> HeaderWidth]

FieldWidth(s) == IF s = EmptyStr THEN 0 ELSE TimeWidth

\* a line of writerows(): Date,First Activity,Last Activity
Row(d, f, l) == [kind |-> "row", Date |-> d, First |-> f, Last |-> l,
                 width |-> DateWidth + FieldWidth(f) + FieldWidth(l) + SeparatorsWidth]

\* the last w characters of a line whose head was overwritten; a reader takes
\* it for a row of no calendar date, and a rewrite keeps it as such a row
Torn(w) == [kind |-> "torn", Date |-> TornDate, First |-> EmptyStr, Last |-> EmptyStr,
            width |-> w]

\* what writeheader() + writerows(rows) put into the buffer
Content(rows) == <<HeaderLine>> \o rows

\* csv.DictReader: the first line names the fields, the others are the rows
ReadRows(file) == IF file.exists /\ file.content # <<>> THEN Tail(file.content) ELSE <<>>

Absent == [exists |-> FALSE, content |-> <<>>]
File(c) == [exists |-> TRUE, content |-> c]

\* characters of a sequence of lines
RECURSIVE Bytes(_)
Bytes(lines) == IF lines = <<>> THEN 0 ELSE Head(lines).width + Bytes(Tail(lines))

\* a write of `data` at offset 0 of a file holding `old`: the characters of
\* `old` past the end of `data` stay, a line cut by that end as its tail
Overlay(old, data) ==
    LET covered == {i \in 0..Len(old) : Bytes(SubSeq(old, 1, i)) <= Bytes(data)}
        k == CHOOSE i \in covered : \A j \in covered : j <= i
    IN  IF k = Len(old) THEN data
        ELSE IF Bytes(SubSeq(old, 1, k)) = Bytes(data)
             THEN data \o SubSeq(old, k + 1, Len(old))
             ELSE data \o <<Torn(Bytes(SubSeq(old, 1, k + 1)) - Bytes(data))>>
                       \o SubSeq(old, k + 2, Len(old))

\* _ensure_log_file: create the header-only file when it does not exist
EnsureLogFile(file) == IF file.exists THEN file ELSE File(<<HeaderLine>>)

\* the rows of `rows` whose Date is not d, in order
OtherDates(rows, d) == SelectSeq(rows, LAMBDA r : r.Date # d)

HasDate(rows, d) == \E i \in 1..Len(rows) : rows[i].Date = d

FirstIndex(rows, d) ==
    CHOOSE i \in 1..Len(rows) :
        rows[i].Date = d /\ \A j \in 1..(i - 1) : rows[j].Date # d

\* _flush_today, "Update or append today's row"
UpdateRowsAppendAlways(rows, date, first, last) ==
    Append(rows, Row(date, Fmt(first), Fmt(last)))
UpdateRows(rows, date, first, last) ==
    IF HasDate(rows, date)
    THEN [rows EXCEPT ![FirstIndex(rows, date)] = Row(date, Fmt(first), Fmt(last))]
    ELSE Append(rows, Row(date, Fmt(first), Fmt(last)))

(* --------------------- shipstation_tracker.py: tables ------------------ *)
ORDERS_COLUMNS == {"Date", "Outstanding Orders", "Shipped Today"}
COMBINED_COLUMNS == {"Date", "First Click", "Last Click", "Outstanding Orders", "Shipped Today"}

\* the fields a script run can set: --mode morning, --mode afternoon
ModeField == [morning |-> "Outstanding Orders", afternoon |-> "Shipped Today"]
Modes == DOMAIN ModeField

\* the counts the API returns
Counts == {0, 1, MaxCount}

\* a string of the metrics table is the sequence of its characters
DecimalDigits == <<"0", "1", "2", "3", "4", "5", "6", "7", "8", "9">>

\* str(value) of an int
RECURSIVE Str(_)
Str(v) == IF v < 0 THEN <<"-">> \o Str(0 - v)
          ELSE IF v < 10 THEN <<DecimalDigits[v + 1]>>
          ELSE Str(v \div 10) \o <<DecimalDigits[(v % 10) + 1]>>

\* a line of orders_log.csv
OrdersLine(k, d, outstanding, shipped) ==
    [c \in ORDERS_COLUMNS \cup {"kind"} |->
        CASE c = "kind" -> k
          [] c = "Date" -> d
          [] c = "Outstanding Orders" -> outstanding
          [] c = "Shipped Today" -> shipped]

OrdersHeader == OrdersLine("header", NoDate, <<>>, <<>>)
OrdersRow(d, outstanding, shipped) == OrdersLine("row", d, outstanding, shipped)

\* a line of combined_log.csv
CombinedLine(k, d, first, last, outstanding, shipped) ==
    [c \in COMBINED_COLUMNS \cup {"kind"} |->
        CASE c = "kind" -> k
          [] c = "Date" -> d
          [] c = "First Click" -> first
          [] c = "Last Click" -> last
          [] c = "Outstanding Orders" -> outstanding
          [] c = "Shipped Today" -> shipped]

CombinedHeader == CombinedLine("header", NoDate, EmptyStr, EmptyStr, <<>>, <<>>)

\* _ensure_orders_log
EnsureOrdersLog(file) == IF file.exists THEN file ELSE File(<<OrdersHeader>>)

\* _read_csv: [] when the file is missing, else the rows after the header
ReadCsv(file) == IF file.exists /\ file.content # <<>> THEN Tail(file.content) ELSE <<>>

\* _upsert_orders_row: find the first row of today (or append an empty one)
\* and set the field to str(value)
UpsertAppendAlways(rows, today, fld, value) ==
    Append(rows, [OrdersRow(today, <<>>, <<>>) EXCEPT ![fld] = Str(value)])
Upsert(rows, today, fld, value) ==
    IF \E i \in 1..Len(rows) : rows[i]["Date"] = today
    THEN LET i == CHOOSE i \in 1..Len(rows) :
                      rows[i]["Date"] = today /\ \A j \in 1..(i - 1) : rows[j]["Date"] # today
         IN  [rows EXCEPT ![i][fld] = Str(value)]
    ELSE Append(rows, [OrdersRow(today, <<>>, <<>>) EXCEPT ![fld] = Str(value)])

\* sorted(set): the dates in ascending order
RECURSIVE SortedDescending(_)
SortedDescending(S) == IF S = {} THEN <<>>
                       ELSE LET m == CHOOSE x \in S : \A y \in S : x >= y
                            IN  <<m>> \o SortedDescending(S \ {m})
RECURSIVE Sorted(_)
Sorted(S) == IF S = {} THEN <<>>
             ELSE LET m == CHOOSE x \in S : \A y \in S : x <= y
                  IN  <<m>> \o Sorted(S \ {m})

\* {r["Date"]: r for r in rows}: the last row of a date is the one kept
Dates(rows) == {rows[i]["Date"] : i \in 1..Len(rows)}
ByDate(rows, d) == rows[CHOOSE i \in 1..Len(rows) :
                           rows[i]["Date"] = d /\ \A j \in (i + 1)..Len(rows) : rows[j]["Date"] # d]

\* rebuild_combined_log: the full outer join of the two tables on Date
CombinedLeftJoin(activity_rows, orders_rows_) ==
    LET all_dates == Sorted(Dates(activity_rows))
        Line(d) ==
            CombinedLine("row", d,
                ByDate(activity_rows, d).First, ByDate(activity_rows, d).Last,
                IF d \in Dates(orders_rows_)
                    THEN ByDate(orders_rows_, d)["Outstanding Orders"] ELSE <<>>,
                IF d \in Dates(orders_rows_)
                    THEN ByDate(orders_rows_, d)["Shipped Today"] ELSE <<>>)
    IN  [i \in 1..Len(all_dates) |-> Line(all_dates[i])]
Combined(activity_rows, orders_rows_) ==
    LET all_dates == Sorted(Dates(activity_rows) \cup Dates(orders_rows_))
        Line(d) ==
            CombinedLine("row", d,
                IF d \in Dates(activity_rows) THEN ByDate(activity_rows, d).First ELSE EmptyStr,
                IF d \in Dates(activity_rows) THEN ByDate(activity_rows, d).Last ELSE EmptyStr,
                IF d \in Dates(orders_rows_)
                    THEN ByDate(orders_rows_, d)["Outstanding Orders"] ELSE <<>>,
                IF d \in Dates(orders_rows_)
                    THEN ByDate(orders_rows_, d)["Shipped Today"] ELSE <<>>)
    IN  [i \in 1..Len(all_dates) |-> Line(all_dates[i])]

VARIABLES
    now,              \* the wall clock
    started,          \* main() has started the threads
    stopped,          \* icon.stop() was called: the process ends
    lock,             \* holder of _lock, or "free"
    current_date, first_activity, last_activity,
    lpc, lnow,        \* listener threads: position, local `now`
    fpc, fdate, ffirst, flast, frows,   \* _flush_today frames
    last_known_date, today,             \* locals of _date_rollover_thread
    log_file, tmp_file,                 \* activity_log.csv, activity_log.tmp
    events, faults,   \* what the run has used of its bounds
    rounds,           \* the timeouts of the periodic wait the run has left
    dirty,            \* history: the state was written since the last snapshot
    saved,            \* history: a flush has committed a snapshot equal to the
                      \* state, and the state was not written since
    exit_base,        \* history: the other dates' rows in the table when the
                      \* exit action's flush started
    orders_file, orders_tmp,            \* orders_log.csv, orders_log.tmp
    combined_file,                      \* combined_log.csv
    spc,              \* shipstation_tracker.py: position of the running script
    field, count, today_str, orders_rows,   \* its locals
    runs,             \* what the run has used of MaxRuns
    upserts,          \* history: the calls of _upsert_orders_row that returned
    orders_base,      \* history: the rows of the metrics table at the start
    rebuilt_from      \* history: the rows of the two tables at the last rebuild

vars == <<now, started, stopped, lock, current_date, first_activity, last_activity,
          lpc, lnow, fpc, fdate, ffirst, flast, frows, last_known_date, today,
          log_file, tmp_file, events, rounds, faults, dirty, saved, exit_base,
          orders_file, orders_tmp, combined_file, spc, field, count, today_str,
          orders_rows, runs, upserts, orders_base, rebuilt_from>>

state == <<current_date, first_activity, last_activity>>
frames == <<fdate, ffirst, flast, frows>>
files == <<log_file, tmp_file>>
rollover_locals == <<last_known_date, today>>
listeners == <<lpc, lnow>>
used == <<events, rounds, faults>>
history == <<dirty, saved, exit_base>>
script == <<orders_file, orders_tmp, combined_file, spc, field, count, today_str,
            orders_rows, runs, upserts, orders_base, rebuilt_from>>
tracker == <<started, stopped, lock, state, listeners, fpc, frames, rollover_locals,
             log_file, tmp_file, events, rounds, dirty, saved, exit_base>>

\* the table an earlier run left: yesterday's row
InitialTables == {File(<<HeaderLine, Row(0, 0, 1)>>)}

\* the tracker before main() runs, on one of the given activity tables, in a
\* run with the given number of timeouts of the periodic wait
TrackerStart(tables, timeouts) ==
    /\ now = FirstTick
    /\ started = FALSE
    /\ stopped = FALSE
    /\ lock = "free"
    /\ current_date = NoDate
    /\ first_activity = None
    /\ last_activity = None
    /\ lpc = [l \in Listeners |-> "idle"]
    /\ lnow = [l \in Listeners |-> None]
    /\ fpc = [f \in Flushers |-> "idle"]
    /\ fdate = [f \in Flushers |-> NoDate]
    /\ ffirst = [f \in Flushers |-> None]
    /\ flast = [f \in Flushers |-> None]
    /\ frows = [f \in Flushers |-> <<>>]
    /\ last_known_date = NoDate
    /\ today = NoDate
    /\ log_file \in tables
    /\ tmp_file = Absent
    /\ events = 0
    /\ rounds = timeouts
    /\ faults = 0
    /\ dirty = TRUE
    /\ saved = FALSE
    /\ exit_base = <<>>

\* no script run in progress, on one of the given metrics tables
ScriptStart(tables) ==
    /\ orders_file \in tables
    /\ orders_tmp = Absent
    /\ combined_file = Absent
    /\ spc = "idle"
    /\ field = "Date"
    /\ count = 0
    /\ today_str = NoDate
    /\ orders_rows = <<>>
    /\ runs = 0
    /\ upserts = <<>>
    /\ orders_base = ReadCsv(orders_file)
    /\ rebuilt_from = <<>>

Init == TrackerStart(InitialTables, MaxPeriodic) /\ ScriptStart({Absent})

Running == started /\ ~stopped

\* the wall clock advances
Tick ==
    /\ now < LastTick
    /\ ~stopped
    /\ now' = now + 1
    /\ UNCHANGED <<script, started, stopped, lock, state, listeners, fpc, frames,
                   rollover_locals, files, used, history>>

\* main(): set _current_date, _ensure_log_file(), start the threads
\* (the rollover thread reads last_known_date as it starts)
Main ==
    /\ ~started
    /\ started' = TRUE
    /\ current_date' = DateOf(now)
    /\ log_file' = EnsureLogFile(log_file)
    /\ last_known_date' = DateOf(now)
    /\ UNCHANGED <<script, now, stopped, lock, first_activity, last_activity, listeners,
                   fpc, frames, today, tmp_file, used, history>>

(* ------------------------- _record_activity --------------------------- *)
\* now = datetime.now(), before the lock is taken
ReadNow(l) ==
    /\ Running
    /\ lpc[l] = "idle"
    /\ events < MaxEvents
    /\ events' = events + 1
    /\ lpc' = [lpc EXCEPT ![l] = "wait"]
    /\ lnow' = [lnow EXCEPT ![l] = now]
    /\ UNCHANGED <<script, now, started, stopped, lock, state, fpc, frames,
                   rollover_locals, files, rounds, faults, history>>

\* with _lock: the body of the with-block.  The block only reads and
\* writes the three fields, so taking the lock, the body and the release
\* are one step, taken when no other thread holds the lock
RecordActivity(l) ==
    /\ Running
    /\ lpc[l] = "wait"
    /\ lock = "free"
    /\ IF current_date # DateOf(lnow[l])
       THEN /\ current_date' = DateOf(lnow[l])
            /\ first_activity' = lnow[l]
            /\ last_activity' = lnow[l]
       ELSE /\ first_activity' = IF first_activity = None THEN lnow[l] ELSE first_activity
            /\ last_activity' = lnow[l]
            /\ UNCHANGED current_date
    /\ dirty' = TRUE
    /\ saved' = FALSE
    /\ lpc' = [lpc EXCEPT ![l] = "idle"]
    /\ lnow' = [lnow EXCEPT ![l] = None]
    /\ UNCHANGED <<script, now, started, stopped, lock, fpc, frames, rollover_locals, files, used, exit_base>>

(* --------------------------- _flush_today ----------------------------- *)
\* where a thread stands when it calls _flush_today
AtCall(f) == CASE f = "periodic" -> fpc[f] = "idle"
               [] f = "rollover" -> fpc[f] = "call"
               [] f = "exit" -> fpc[f] \in {"idle", "failed"}

\* _flush_today returned: the caller's next statement
AfterReturn(f) == CASE f = "periodic" -> "idle"
                    [] f = "rollover" -> "reset"
                    [] f = "exit" -> "stop"

\* _flush_today raised: no caller catches, so the thread's target ends with
\* the exception; the Exit callback ends without icon.stop() and the menu
\* stays (Exit can be chosen again)
AfterRaise(f) == CASE f = "periodic" -> "dead"
                   [] f = "rollover" -> "dead"
                   [] f = "exit" -> "failed"

\* the frame is gone
ClearFrame(f) ==
    /\ fdate' = [fdate EXCEPT ![f] = NoDate]
    /\ ffirst' = [ffirst EXCEPT ![f] = None]
    /\ flast' = [flast EXCEPT ![f] = None]
    /\ frows' = [frows EXCEPT ![f] = <<>>]

\* with _lock:   (periodic: the wait timed out; exit: Exit was chosen)
FlushAcquire(f) ==
    /\ Running
    /\ AtCall(f)
    /\ f = "periodic" => rounds > 0
    /\ rounds' = IF f = "periodic" THEN rounds - 1 ELSE rounds
    /\ lock = "free"
    /\ lock' = f
    /\ fpc' = [fpc EXCEPT ![f] = "snap"]
    /\ exit_base' = IF f = "exit"
                    THEN ReadRows(log_file) ELSE exit_base
    /\ UNCHANGED <<script, now, started, stopped, state, listeners, frames,
                   rollover_locals, files, events, faults, dirty, saved>>

\* date, first, last = the state; release; if not date: return
FlushSnapshotKeepsLock(f) ==
    /\ Running
    /\ fpc[f] = "snap"
    /\ dirty' = FALSE
    /\ exit_base' = IF f = "exit"
                    THEN OtherDates(exit_base, current_date) ELSE exit_base
    /\ IF current_date = NoDate
       THEN /\ fpc' = [fpc EXCEPT ![f] = AfterReturn(f)]
            /\ lock' = "free"
            /\ UNCHANGED frames
       ELSE /\ fpc' = [fpc EXCEPT ![f] = "read"]
            /\ fdate' = [fdate EXCEPT ![f] = current_date]
            /\ ffirst' = [ffirst EXCEPT ![f] = first_activity]
            /\ flast' = [flast EXCEPT ![f] = last_activity]
            /\ UNCHANGED <<lock, frows>>
    /\ UNCHANGED <<script, now, started, stopped, state, listeners, rollover_locals, files, used,
                   saved>>
FlushSnapshotResets(f) ==
    /\ Running
    /\ fpc[f] = "snap"
    /\ lock' = "free"
    /\ dirty' = FALSE
    /\ exit_base' = IF f = "exit"
                    THEN OtherDates(exit_base, current_date) ELSE exit_base
    /\ fpc' = [fpc EXCEPT ![f] = "read"]
    /\ fdate' = [fdate EXCEPT ![f] = current_date]
    /\ ffirst' = [ffirst EXCEPT ![f] = first_activity]
    /\ flast' = [flast EXCEPT ![f] = last_activity]
    /\ first_activity' = None
    /\ last_activity' = None
    /\ UNCHANGED <<script, now, started, stopped, current_date, listeners, rollover_locals,
                   files, used, saved, frows>>
FlushSnapshot(f) ==
    /\ Running
    /\ fpc[f] = "snap"
    /\ lock' = "free"
    /\ dirty' = FALSE
    /\ exit_base' = IF f = "exit"
                    THEN OtherDates(exit_base, current_date) ELSE exit_base
    /\ IF current_date = NoDate
       THEN /\ fpc' = [fpc EXCEPT ![f] = AfterReturn(f)]
            /\ UNCHANGED frames
       ELSE /\ fpc' = [fpc EXCEPT ![f] = "read"]
            /\ fdate' = [fdate EXCEPT ![f] = current_date]
            /\ ffirst' = [ffirst EXCEPT ![f] = first_activity]
            /\ flast' = [flast EXCEPT ![f] = last_activity]
            /\ UNCHANGED frows
    /\ UNCHANGED <<script, now, started, stopped, state, listeners, rollover_locals, files, used,
                   saved>>

\* _ensure_log_file(); rows = list(reader); update or append today's row
FlushRead(f) ==
    /\ Running
    /\ fpc[f] = "read"
    /\ log_file' = EnsureLogFile(log_file)
    /\ frows' = [frows EXCEPT ![f] =
                    UpdateRows(ReadRows(log_file'), fdate[f], ffirst[f], flast[f])]
    /\ fpc' = [fpc EXCEPT ![f] = "open"]
    /\ UNCHANGED <<script, now, started, stopped, lock, state, listeners, fdate, ffirst,
                   flast, rollover_locals, tmp_file, used, history>>

\* open(tmp, "w"): create or truncate activity_log.tmp
FlushOpen(f) ==
    /\ Running
    /\ fpc[f] = "open"
    /\ tmp_file' = File(<<>>)
    /\ fpc' = [fpc EXCEPT ![f] = "write"]
    /\ UNCHANGED <<script, now, started, stopped, lock, state, listeners, frames,
                   rollover_locals, log_file, used, history>>

\* writeheader(); writerows(rows); the with-block closes the file
FlushWrite(f) ==
    /\ Running
    /\ fpc[f] = "write"
    /\ tmp_file' = File(Overlay(tmp_file.content, Content(frows[f])))
    /\ fpc' = [fpc EXCEPT ![f] = "replace"]
    /\ UNCHANGED <<script, now, started, stopped, lock, state, listeners, frames,
                   rollover_locals, log_file, used, history>>

\* another thread's handle on activity_log.tmp is open
TmpHeldByOther(f) == \E g \in Flushers \ {f} : fpc[g] = "write"

\* tmp.replace(LOG_FILE) can succeed
CanReplace(f) == tmp_file.exists /\ ~TmpHeldByOther(f)

\* tmp.replace(LOG_FILE), and the return
FlushReplace(f) ==
    /\ Running
    /\ fpc[f] = "replace"
    /\ CanReplace(f)
    /\ log_file' = tmp_file
    /\ tmp_file' = Absent
    /\ fpc' = [fpc EXCEPT ![f] = AfterReturn(f)]
    /\ ClearFrame(f)
    /\ saved' = (<<fdate[f], ffirst[f], flast[f]>> = state)
    /\ UNCHANGED <<script, now, started, stopped, lock, state, listeners, rollover_locals, used,
                   dirty, exit_base>>

\* open(tmp, "w") raises OSError
FlushOpenRaises(f) ==
    /\ Running
    /\ fpc[f] = "open"
    /\ faults < MaxFaults
    /\ faults' = faults + 1
    /\ fpc' = [fpc EXCEPT ![f] = AfterRaise(f)]
    /\ ClearFrame(f)
    /\ UNCHANGED <<script, now, started, stopped, lock, state, listeners, rollover_locals, files, events, rounds, history>>

\* the write raises OSError after k lines reached the file; the with-block
\* closes the file
FlushWriteRaisesInPlace(f) ==
    /\ Running
    /\ fpc[f] = "write"
    /\ faults < MaxFaults
    /\ faults' = faults + 1
    /\ \E k \in 0..Len(frows[f]) :
          log_file' = File(SubSeq(Content(frows[f]), 1, k))
    /\ fpc' = [fpc EXCEPT ![f] = AfterRaise(f)]
    /\ ClearFrame(f)
    /\ UNCHANGED <<script, now, started, stopped, lock, state, listeners, rollover_locals, tmp_file, events, rounds, history>>
FlushWriteRaises(f) ==
    /\ Running
    /\ fpc[f] = "write"
    /\ faults < MaxFaults
    /\ faults' = faults + 1
    /\ \E k \in 0..Len(frows[f]) :
          tmp_file' = File(Overlay(tmp_file.content, SubSeq(Content(frows[f]), 1, k)))
    /\ fpc' = [fpc EXCEPT ![f] = AfterRaise(f)]
    /\ ClearFrame(f)
    /\ UNCHANGED <<script, now, started, stopped, lock, state, listeners, rollover_locals, log_file, events, rounds, history>>

\* tmp.replace(LOG_FILE) raises: the source is gone (FileNotFoundError) or
\* held open (PermissionError), or the rename fails (the target is open in
\* another program, the disk fails); nothing is moved
FlushReplaceRaises(f) ==
    /\ Running
    /\ fpc[f] = "replace"
    /\ CanReplace(f) => faults < MaxFaults
    /\ faults' = IF CanReplace(f) THEN faults + 1 ELSE faults
    /\ fpc' = [fpc EXCEPT ![f] = AfterRaise(f)]
    /\ ClearFrame(f)
    /\ UNCHANGED <<script, now, started, stopped, lock, state, listeners, rollover_locals, files, events, rounds, history>>

(* ----------------------- _date_rollover_thread ------------------------ *)
\* today = datetime.now()...; if today != last_known_date: _flush_today()
RolloverCheckNextDate ==
    /\ Running
    /\ fpc["rollover"] = "idle"
    /\ DateOf(now) = last_known_date + 1
    /\ today' = DateOf(now)
    /\ fpc' = [fpc EXCEPT !["rollover"] = "call"]
    /\ UNCHANGED <<script, now, started, stopped, lock, state, listeners, frames,
                   last_known_date, files, used, history>>
RolloverCheck ==
    /\ Running
    /\ fpc["rollover"] = "idle"
    /\ DateOf(now) # last_known_date
    /\ today' = DateOf(now)
    /\ fpc' = [fpc EXCEPT !["rollover"] = "call"]
    /\ UNCHANGED <<script, now, started, stopped, lock, state, listeners, frames,
                   last_known_date, files, used, history>>

\* with _lock:
ResetAcquire ==
    /\ Running
    /\ fpc["rollover"] = "reset"
    /\ lock = "free"
    /\ lock' = "rollover"
    /\ fpc' = [fpc EXCEPT !["rollover"] = "reset_locked"]
    /\ UNCHANGED <<script, now, started, stopped, state, listeners, frames,
                   rollover_locals, files, used, history>>

\* the reset, the release, last_known_date = today
RolloverReset ==
    /\ Running
    /\ fpc["rollover"] = "reset_locked"
    /\ current_date' = today
    /\ first_activity' = None
    /\ last_activity' = None
    /\ lock' = "free"
    /\ last_known_date' = today
    /\ today' = NoDate
    /\ dirty' = TRUE
    /\ saved' = FALSE
    /\ fpc' = [fpc EXCEPT !["rollover"] = "idle"]
    /\ UNCHANGED <<script, now, started, stopped, listeners, frames, files, used, exit_base>>

(* ------------------------------ _exit_app ----------------------------- *)
\* icon.stop(): tray.run() returns, main() returns, the daemon threads end
ExitStop ==
    /\ Running
    /\ fpc["exit"] = "stop"
    /\ stopped' = TRUE
    /\ fpc' = [fpc EXCEPT !["exit"] = "idle"]
    /\ UNCHANGED <<script, now, started, lock, state, listeners, frames,
                   rollover_locals, files, used, history>>

(* ------------------------ shipstation_tracker.py ---------------------- *)
\* main() on a day outside VALID_WEEKDAYS: sys.exit(0)
MainSkips ==
    /\ spc = "idle"
    /\ runs < MaxRuns
    /\ runs' = runs + 1
    /\ UNCHANGED <<now, faults, tracker, orders_file, orders_tmp, combined_file, spc,
                   field, count, today_str, orders_rows, upserts, orders_base, rebuilt_from>>

\* main() --mode m: run_morning / run_afternoon is entered
MainRuns(m) ==
    /\ spc = "idle"
    /\ runs < MaxRuns
    /\ runs' = runs + 1
    /\ field' = ModeField[m]
    /\ spc' = "fetch"
    /\ UNCHANGED <<now, faults, tracker, orders_file, orders_tmp, combined_file,
                   count, today_str, orders_rows, upserts, orders_base, rebuilt_from>>

\* count = get_..._count(api_key); today = date.today().isoformat()
FetchReturns(c) ==
    /\ spc = "fetch"
    /\ count' = c
    /\ today_str' = DateOf(now)
    /\ spc' = "upsert"
    /\ UNCHANGED <<now, faults, tracker, orders_file, orders_tmp, combined_file,
                   field, orders_rows, runs, upserts, orders_base, rebuilt_from>>

\* the script's frame is gone: the process has ended
ScriptEnds ==
    /\ spc' = "idle"
    /\ field' = "Date"
    /\ count' = 0
    /\ today_str' = NoDate
    /\ orders_rows' = <<>>

\* requests raises (raise_for_status, timeout): the script ends
FetchRaisesAfterUpsert ==
    /\ spc = "fetch"
    /\ orders_file' = File(<<OrdersHeader>>
                           \o Upsert(ReadCsv(orders_file), DateOf(now), field, 0))
    /\ ScriptEnds
    /\ UNCHANGED <<now, faults, tracker, orders_tmp, combined_file,
                   runs, upserts, orders_base, rebuilt_from>>
FetchRaises ==
    /\ spc = "fetch"
    /\ ScriptEnds
    /\ UNCHANGED <<now, faults, tracker, orders_file, orders_tmp, combined_file,
                   runs, upserts, orders_base, rebuilt_from>>

\* _upsert_orders_row up to the call of _write_csv
UpsertOrdersRow ==
    /\ spc = "upsert"
    /\ orders_file' = EnsureOrdersLog(orders_file)
    /\ orders_rows' = Upsert(ReadCsv(orders_file'), today_str, field, count)
    /\ spc' = "write"
    /\ UNCHANGED <<now, faults, tracker, orders_tmp, combined_file, field, count,
                   today_str, runs, upserts, orders_base, rebuilt_from>>

\* _write_csv: open(tmp, "w"), writeheader(), writerows(rows), close
WriteCsvWrite ==
    /\ spc = "write"
    /\ orders_tmp' = File(<<OrdersHeader>> \o orders_rows)
    /\ spc' = "replace"
    /\ UNCHANGED <<now, faults, tracker, orders_file, combined_file, field, count,
                   today_str, orders_rows, runs, upserts, orders_base, rebuilt_from>>

\* the write raises OSError after k lines reached orders_log.tmp
WriteCsvWriteRaises ==
    /\ spc = "write"
    /\ faults < MaxFaults
    /\ faults' = faults + 1
    /\ \E k \in 0..Len(orders_rows) :
          orders_tmp' = File(SubSeq(<<OrdersHeader>> \o orders_rows, 1, k))
    /\ ScriptEnds
    /\ UNCHANGED <<now, tracker, orders_file, combined_file, runs, upserts, orders_base, rebuilt_from>>

\* tmp.replace(path), and _upsert_orders_row returns
WriteCsvReplace ==
    /\ spc = "replace"
    /\ orders_file' = orders_tmp
    /\ orders_tmp' = Absent
    /\ upserts' = Append(upserts, [date |-> today_str, column |-> field, value |-> count])
    /\ spc' = "rebuild"
    /\ UNCHANGED <<now, faults, tracker, combined_file, field, count, today_str,
                   orders_rows, runs, orders_base, rebuilt_from>>

\* tmp.replace(path) raises: nothing is moved
WriteCsvReplaceRaises ==
    /\ spc = "replace"
    /\ faults < MaxFaults
    /\ faults' = faults + 1
    /\ ScriptEnds
    /\ UNCHANGED <<now, tracker, orders_file, orders_tmp, combined_file, runs,
                   upserts, orders_base, rebuilt_from>>

\* rebuild_combined_log(), and the script ends
RebuildCombinedLogAppends ==
    /\ spc = "rebuild"
    /\ combined_file' = File((IF combined_file.exists THEN combined_file.content ELSE <<>>)
                             \o <<CombinedHeader>>
                             \o Combined(ReadRows(log_file), ReadCsv(orders_file)))
    /\ rebuilt_from' = <<ReadRows(log_file), ReadCsv(orders_file)>>
    /\ ScriptEnds
    /\ UNCHANGED <<now, faults, tracker, orders_file, orders_tmp, runs, upserts, orders_base>>
RebuildCombinedLog ==
    /\ spc = "rebuild"
    /\ combined_file' = File(<<CombinedHeader>> \o Combined(ReadRows(log_file), ReadCsv(orders_file)))
    /\ rebuilt_from' = <<ReadRows(log_file), ReadCsv(orders_file)>>
    /\ ScriptEnds
    /\ UNCHANGED <<now, faults, tracker, orders_file, orders_tmp, runs, upserts, orders_base>>

Next ==
    \/ Tick
    \/ Main
    \/ \E l \in Listeners : ReadNow(l)
    \/ \E l \in Listeners : RecordActivity(l)
    \/ \E f \in Flushers : FlushAcquire(f)
    \/ \E f \in Flushers : FlushSnapshot(f)
    \/ \E f \in Flushers : FlushRead(f)
    \/ \E f \in Flushers : FlushOpen(f)
    \/ \E f \in Flushers : FlushWrite(f)
    \/ \E f \in Flushers : FlushReplace(f)
    \/ \E f \in Flushers : FlushOpenRaises(f)
    \/ \E f \in Flushers : FlushWriteRaises(f)
    \/ \E f \in Flushers : FlushReplaceRaises(f)
    \/ RolloverCheck
    \/ ResetAcquire
    \/ RolloverReset
    \/ ExitStop

Spec == Init /\ [][Next]_vars

(* ---------------------- a flush that runs alone ----------------------- *)
\* activity tables of earlier runs: today's row absent or present, first,
\* last or between the rows of other dates
FlushTables ==
    {Absent,
     File(<<HeaderLine>>),
     File(<<HeaderLine, Row(0, 0, 1)>>),
     File(<<HeaderLine, Row(1, 1, 1), Row(0, 0, 1)>>),
     File(<<HeaderLine, Row(0, 0, 1), Row(2, 0, 0)>>),
     File(<<HeaderLine, Row(0, EmptyStr, EmptyStr), Row(1, 0, EmptyStr), Row(2, 1, 1)>>)}

InitFlush == TrackerStart(FlushTables, MaxPeriodicAlone) /\ ScriptStart({Absent})

\* main(), the listeners and the periodic flush thread, no I/O error
NextFlush ==
    \/ Tick
    \/ Main
    \/ \E l \in Listeners : ReadNow(l)
    \/ \E l \in Listeners : RecordActivity(l)
    \/ FlushAcquire("periodic")
    \/ FlushSnapshot("periodic")
    \/ FlushRead("periodic")
    \/ FlushOpen("periodic")
    \/ FlushWrite("periodic")
    \/ FlushReplace("periodic")

SpecFlush == InitFlush /\ [][NextFlush]_vars

(* ------------------- runs of shipstation_tracker.py ------------------- *)
\* metrics tables of earlier runs, none with two rows of one date
OrdersTables ==
    {Absent,
     File(<<OrdersHeader>>),
     File(<<OrdersHeader, OrdersRow(0, Str(1), Str(MaxCount))>>),
     File(<<OrdersHeader, OrdersRow(1, <<>>, Str(0)), OrdersRow(0, Str(MaxCount), <<>>)>>),
     File(<<OrdersHeader, OrdersRow(0, Str(0), <<>>), OrdersRow(1, Str(1), <<>>),
            OrdersRow(2, <<>>, <<>>)>>)}

\* activity tables the tracker has left: missing, empty, rows of dates the
\* metrics table has or has not, in and out of date order, a date twice
ActivityTables ==
    {Absent,
     File(<<HeaderLine>>),
     File(<<HeaderLine, Row(0, 0, 1)>>),
     File(<<HeaderLine, Row(3, 1, 1), Row(1, 0, EmptyStr), Row(0, 0, 1)>>),
     File(<<HeaderLine, Row(2, 0, 0), Row(0, EmptyStr, EmptyStr), Row(2, 0, 1)>>)}

InitOrders == TrackerStart(ActivityTables, MaxPeriodic) /\ ScriptStart(OrdersTables)

NextOrders ==
    \/ Tick
    \/ MainSkips
    \/ \E m \in Modes : MainRuns(m)
    \/ \E c \in Counts : FetchReturns(c)
    \/ FetchRaises
    \/ UpsertOrdersRow
    \/ WriteCsvWrite
    \/ WriteCsvWriteRaises
    \/ WriteCsvReplace
    \/ WriteCsvReplaceRaises
    \/ RebuildCombinedLog

SpecOrders == InitOrders /\ [][NextOrders]_vars

(* ------------------------------ properties ---------------------------- *)
InFlush(f) == fpc[f] \in {"snap", "read", "open", "write", "replace"}

\* no call of _flush_today is in flight
Quiescent == \A f \in Flushers : ~InFlush(f)

\* no call of _flush_today has ended with an exception
NoneRaised == faults = 0 /\ \A f \in Flushers : fpc[f] \notin {"dead", "failed"}

HasRow(rows, r) == \E i \in 1..Len(rows) : rows[i] = r

\* C1: when the in-memory state stops holding a date on which activity was
\* observed, the activity table has that date's row with the first and last
\* timestamps the state held (the rollover flushed them before the reset).
C1_RolloverFlushesFinalValues ==
    [][(current_date # NoDate /\ first_activity # None /\ current_date' # current_date)
        => HasRow(ReadRows(log_file),
                  Row(current_date, Fmt(first_activity), Fmt(last_activity)))]_vars

\* C2: whenever both timestamps are set, first <= last.
C2_FirstNotAfterLast ==
    (first_activity # None /\ last_activity # None) => first_activity <= last_activity

\* C3: once every in-flight flush has finished (none of them raised), the
\* table's Last Activity for the date is the last value of the most recent
\* snapshot (the state as it stands when it was not written since).
C3_LatestSnapshotPersisted ==
    (started /\ Quiescent /\ NoneRaised /\ ~dirty)
        => /\ HasDate(ReadRows(log_file), current_date)
           /\ ReadRows(log_file)[FirstIndex(ReadRows(log_file), current_date)].Last
                  = Fmt(last_activity)

\* C4 (for the exit action's flush): every row of another date that was in
\* the table when the flush started is in the table, unchanged, once every
\* in-flight flush has finished.
C4_OtherDatesPreserved ==
    (Quiescent /\ NoneRaised)
        => \A i \in 1..Len(exit_base) : HasRow(ReadRows(log_file), exit_base[i])

\* C5: after startup every change of the content at the final path installs
\* the complete output of one single write (one that has written its rows
\* and not yet renamed).
C5_CommittedFileIsOneWrite ==
    [][(started /\ faults = 0 /\ log_file' # log_file)
        => \E g \in Flushers : /\ fpc[g] = "replace"
                               /\ log_file'.content = Content(frows[g])]_vars

\* C9: the activity table never holds two rows with the same Date.
C9_OneRowPerDate ==
    faults = 0 =>
        \A i, j \in 1..Len(ReadRows(log_file)) :
            ReadRows(log_file)[i].Date = ReadRows(log_file)[j].Date => i = j

C7_ScheduledFlushRetried ==
    fpc["periodic"] # "dead" /\ fpc["rollover"] # "dead"

OtherOrdersDates(rows, d) == SelectSeq(rows, LAMBDA r : r["Date"] # d)

\* C8: after _upsert_orders_row(D, A, va) and then _upsert_orders_row(D, B, vb)
\* have returned, the metrics table has exactly one record for D, with
\* B = str(vb) and (when A is another field) A = str(va), a field that was
\* not named keeps its value (empty when D was absent), and the records of
\* the other dates are those of the initial table, in their order.
C8_TwoUpsertsOneRecord ==
    (Len(upserts) = 2 /\ upserts[1].date = upserts[2].date)
        => LET D == upserts[1].date
               A == upserts[1].column
               B == upserts[2].column
               rows == ReadCsv(orders_file)
               at == {i \in 1..Len(rows) : rows[i]["Date"] = D}
               was == {i \in 1..Len(orders_base) : orders_base[i]["Date"] = D}
           IN  /\ Cardinality(at) = 1
               /\ \A i \in at :
                     /\ rows[i][B] = Str(upserts[2].value)
                     /\ A # B => rows[i][A] = Str(upserts[1].value)
                     /\ \A c \in ORDERS_COLUMNS \ {"Date", A, B} :
                           rows[i][c] = IF was = {} THEN <<>>
                                        ELSE orders_base[CHOOSE j \in was : TRUE][c]
               /\ OtherOrdersDates(rows, D) = OtherOrdersDates(orders_base, D)

\* both fields were upserted for a date that the initial table, which has
\* records of other dates, did not have
C8_BothFieldsForNewDate ==
    /\ Len(upserts) = 2
    /\ upserts[1].date = upserts[2].date
    /\ upserts[1].column # upserts[2].column
    /\ orders_base # <<>>
    /\ \A i \in 1..Len(orders_base) : orders_base[i]["Date"] # upserts[1].date
    /\ spc = "idle"

\* C10: the rename of a flush that ran alone leaves the activity table as it
\* was read with the row of the snapshotted date set to First Activity =
\* _fmt(first), Last Activity = _fmt(last) of the snapshot: the row is
\* appended when the date was absent, replaced in place otherwise, and the
\* rows of all other dates are unchanged.
C10_FlushSetsSnapshotRow ==
    [][(fpc["periodic"] = "replace" /\ fpc'["periodic"] = "idle")
        => LET d == fdate["periodic"]
               r == Row(d, Fmt(ffirst["periodic"]), Fmt(flast["periodic"]))
               old == ReadRows(log_file)
               new == ReadRows(log_file')
           IN  /\ OtherDates(new, d) = OtherDates(old, d)
               /\ IF HasDate(old, d)
                  THEN /\ Len(new) = Len(old)
                       /\ \A i \in 1..Len(old) :
                             new[i] = IF old[i].Date = d THEN r ELSE old[i]
                  ELSE new = Append(old, r)]_vars

\* events at two times of one day were flushed: the table has that day's
\* row with both times, next to yesterday's row
C10_TwoEventsFlushed ==
    /\ rounds < MaxPeriodicAlone
    /\ fpc["periodic"] = "idle"
    /\ first_activity # None /\ first_activity < last_activity
    /\ HasRow(ReadRows(log_file),
              Row(current_date, Fmt(first_activity), Fmt(last_activity)))
    /\ HasRow(ReadRows(log_file), Row(0, 0, 1))

\* C11: a step of a flush leaves _current_date, _first_activity and
\* _last_activity as they are; and the rename of a flush that follows a flush
\* of the same state, with no input event and no rollover since, leaves the
\* activity table exactly as that flush left it.
C11_FlushKeepsStateAndIsIdempotent ==
    [][\A f \in Flushers :
          (fpc'[f] # fpc[f] /\ (InFlush(f) \/ fpc'[f] \in {"snap", "read", "open", "write", "replace"}))
              => /\ state' = state
                 /\ (fpc[f] = "replace" /\ saved /\ <<fdate[f], ffirst[f], flast[f]>> = state)
                        => log_file' = log_file]_vars

\* a flush has written the day's activity, nothing was recorded since, and
\* the next flush has snapshotted the same state and is about to rename
C11_SecondFlushAboutToRename ==
    /\ saved
    /\ fpc["periodic"] = "replace"
    /\ first_activity # None
    /\ <<fdate["periodic"], ffirst["periodic"], flast["periodic"]>> = state
    /\ Len(ReadRows(log_file)) >= 2

\* the rows combined_log.csv holds
CombinedRows(file) == IF file.exists /\ file.content # <<>> THEN Tail(file.content) ELSE <<>>

\* the last row of date d in a table
LastOf(rows, d) ==
    rows[CHOOSE i \in 1..Len(rows) :
            rows[i]["Date"] = d /\ \A j \in (i + 1)..Len(rows) : rows[j]["Date"] # d]

\* C12: in the combined table that rebuild_combined_log writes, every date
\* that only the metrics table has is a row with empty First Click and Last
\* Click and the metrics row's Outstanding Orders and Shipped Today, and
\* every date that only the activity table has is a row with that table's
\* First/Last Activity as First/Last Click and empty metrics fields.
C12_OneSidedDatesHaveEmptyOtherSide ==
    [][(spc = "rebuild" /\ spc' = "idle")
        => LET act == ReadRows(log_file)
               ord == ReadCsv(orders_file)
               new == CombinedRows(combined_file')
           IN  /\ \A d \in Dates(ord) \ Dates(act) :
                     \E i \in 1..Len(new) :
                        /\ new[i]["Date"] = d
                        /\ new[i]["First Click"] = EmptyStr
                        /\ new[i]["Last Click"] = EmptyStr
                        /\ new[i]["Outstanding Orders"] = LastOf(ord, d)["Outstanding Orders"]
                        /\ new[i]["Shipped Today"] = LastOf(ord, d)["Shipped Today"]
               /\ \A d \in Dates(act) \ Dates(ord) :
                     \E i \in 1..Len(new) :
                        /\ new[i]["Date"] = d
                        /\ new[i]["First Click"] = LastOf(act, d).First
                        /\ new[i]["Last Click"] = LastOf(act, d).Last
                        /\ new[i]["Outstanding Orders"] = <<>>
                        /\ new[i]["Shipped Today"] = <<>>]_vars

\* the activity table is empty, the metrics table has one row with only
\* Outstanding Orders set, and the combined table is that one row with
\* empty clicks
C12_MetricsOnlyRow ==
    /\ ReadRows(log_file) = <<>>
    /\ spc = "idle"
    /\ \E d \in 1..2, c \in Counts :
          /\ ReadCsv(orders_file) = <<OrdersRow(d, Str(c), <<>>)>>
          /\ CombinedRows(combined_file)
                 = <<CombinedLine("row", d, EmptyStr, EmptyStr, Str(c), <<>>)>>

\* C13: the combined table that rebuild_combined_log writes has exactly one
\* row for each date of the union of the two tables' dates, no other row,
\* and its rows are in strictly ascending date order.
C13_OneRowPerDateAscending ==
    [][(spc = "rebuild" /\ spc' = "idle")
        => LET dates == Dates(ReadRows(log_file)) \cup Dates(ReadCsv(orders_file))
               new == CombinedRows(combined_file')
           IN  /\ {new[i]["Date"] : i \in 1..Len(new)} = dates
               /\ Len(new) = Cardinality(dates)
               /\ \A i, j \in 1..Len(new) : i < j => new[i]["Date"] < new[j]["Date"]]_vars

\* a combined table of four dates was built from tables that are not in
\* date order, one of them with a date twice
C13_FourDatesFromUnsortedTables ==
    /\ spc = "idle"
    /\ Len(CombinedRows(combined_file)) = 4
    /\ \E i \in 1..(Len(ReadRows(log_file)) - 1) :
          ReadRows(log_file)[i].Date > ReadRows(log_file)[i + 1].Date
    /\ \E i \in 1..(Len(ReadCsv(orders_file)) - 1) :
          ReadCsv(orders_file)[i]["Date"] > ReadCsv(orders_file)[i + 1]["Date"]

\* C14: a rebuild from the same two tables as the previous rebuild writes a
\* combined_log.csv identical to the one that is there.
C14_RebuildTwiceIdentical ==
    [][(spc = "rebuild" /\ spc' = "idle"
            /\ rebuilt_from = <<ReadRows(log_file), ReadCsv(orders_file)>>)
        => combined_file' = combined_file]_vars

\* a second run has upserted, the two tables are as they were at the
\* previous rebuild, and the rebuild is about to run
C14_SecondRebuildSameSources ==
    /\ spc = "rebuild"
    /\ Len(upserts) = 2
    /\ rebuilt_from = <<ReadRows(log_file), ReadCsv(orders_file)>>
    /\ Len(CombinedRows(combined_file)) >= 2

\* C15: a run whose fetch raises ends with orders_log.csv and
\* combined_log.csv as they were; the two files change only in a run whose
\* fetch has returned a count.
C15_FailedFetchChangesNothing ==
    [][/\ (spc = "fetch" /\ spc' = "idle")
              => (orders_file' = orders_file /\ combined_file' = combined_file)
       /\ (orders_file' # orders_file \/ combined_file' # combined_file)
              => spc \in {"upsert", "replace", "rebuild"}]_vars

\* a run is at its fetch and an earlier run has written both tables
C15_FetchWithTablesWritten ==
    /\ spc = "fetch"
    /\ Len(upserts) = 1
    /\ Len(ReadCsv(orders_file)) >= 2
    /\ Len(CombinedRows(combined_file)) >= 2

\* C16: when the flush of the exit action has renamed its file, so that
\* _exit_app goes on to icon.stop(), the activity table has the row of the
\* date with the first and last values that the flush snapshotted when Exit
\* was chosen (in a run without any I/O error).
C16_ExitFlushPersistsState ==
    [][(faults = 0 /\ fpc["exit"] = "replace" /\ fpc'["exit"] = "stop")
        => HasRow(ReadRows(log_file'),
                  Row(fdate["exit"], Fmt(ffirst["exit"]), Fmt(flast["exit"])))]_vars

\* the file I/O of _flush_today: the read of activity_log.csv, the open and
\* the write of activity_log.tmp, the rename
InFileIO(f) == fpc[f] \in {"read", "open", "write", "replace"}

\* C17: _lock is never held while file I/O is performed: a thread that is
\* reading, writing or renaming a table file in _flush_today (the periodic
\* flush thread, the rollover thread, the exit action) does not hold _lock,
\* and whoever holds _lock is inside one of the two with-blocks that only
\* read or assign the three fields; so a callback that waits for the lock
\* waits for field reads and assignments only.
C17_NoLockDuringFileIO ==
    /\ \A f \in Flushers : InFileIO(f) => lock # f
    /\ lock # "free" => fpc[lock] \in {"snap", "reset_locked"}
C17_CallbackRecordsDuringWrite ==
    /\ \E f \in Flushers : fpc[f] = "write" /\ tmp_file.exists
    /\ \E l \in Listeners : lpc[l] = "wait"
    /\ lock = "free"

(* ------------------- the rollover thread over midnights --------------- *)
LastTickAsleep == FirstTick + MaxTicksAsleep

\* the wall clock advances by a day while no thread of the process runs
\* (the machine sleeps, the process is suspended)
Sleep ==
    /\ now + TicksPerDay <= LastTickAsleep
    /\ ~stopped
    /\ now' = now + TicksPerDay
    /\ UNCHANGED <<script, started, stopped, lock, state, listeners, fpc, frames,
                   rollover_locals, files, used, history>>

\* a step of the rollover thread: the check, its _flush_today (which returns
\* or raises), the reset
RolloverStep ==
    \/ RolloverCheck
    \/ FlushAcquire("rollover")
    \/ FlushSnapshot("rollover")
    \/ FlushRead("rollover")
    \/ FlushOpen("rollover")
    \/ FlushWrite("rollover")
    \/ FlushReplace("rollover")
    \/ FlushOpenRaises("rollover")
    \/ FlushWriteRaises("rollover")
    \/ FlushReplaceRaises("rollover")
    \/ ResetAcquire
    \/ RolloverReset

\* a step of the periodic flush thread
PeriodicStep ==
    \/ FlushAcquire("periodic")
    \/ FlushSnapshot("periodic")
    \/ FlushRead("periodic")
    \/ FlushOpen("periodic")
    \/ FlushWrite("periodic")
    \/ FlushReplace("periodic")
    \/ FlushOpenRaises("periodic")
    \/ FlushWriteRaises("periodic")
    \/ FlushReplaceRaises("periodic")

\* main(), the clock, the listeners and the two daemon threads; Exit is not
\* chosen
NextRollover ==
    \/ Tick
    \/ Sleep
    \/ Main
    \/ \E l \in Listeners : ReadNow(l)
    \/ \E l \in Listeners : RecordActivity(l)
    \/ RolloverStep
    \/ PeriodicStep

\* the rollover thread is scheduled again whenever it can take a step (its
\* wait(ROLLOVER_CHECK_SECONDS) times out, the lock is handed to it), and a
\* thread inside `with _lock` leaves the block
FairRollover ==
    /\ WF_vars(RolloverStep)
    /\ WF_vars(FlushSnapshot("periodic"))

SpecRollover == Init /\ [][NextRollover]_vars /\ FairRollover

C19_CurrentDateNeverDecreases ==
    [][(faults = 0 /\ current_date # NoDate) => current_date' >= current_date]_vars

\* C20: the first timestamp of a day is write-once: when _first_activity is
\* set, _current_date is the wall-clock date D, and a step leaves both dates
\* at D, the step leaves _first_activity as it is (in a run without any I/O
\* error).
C20_FirstActivityWriteOnce ==
    [][(/\ faults = 0
        /\ first_activity # None
        /\ current_date = DateOf(now)
        /\ current_date' = current_date
        /\ DateOf(now') = DateOf(now))
           => first_activity' = first_activity]_vars
====
